---- MODULE Spec2Model ----
(***************************************************************************)
(* Model of pygeobox.api.backend.elastic.ElasticBackend: collection and    *)
(* item lifecycle against an Elasticsearch engine, and the retention sweep; *)
(* and of the validation of the settings when pygeobox.env is imported.     *)
(* Strings that es_id transforms are sequences of one-character strings.    *)
(***************************************************************************)
EXTENDS Integers, Sequences, FiniteSets, TLC

VARIABLES indices, now, last, pc, req, res, created, creations, arg, out, out2,
          environ, outcome, missing_environment_variables

vars ==
    <<indices, now, last, pc, req, res, created, creations, arg, out, out2,
      environ, outcome, missing_environment_variables>>

(* ------------------------------ bounds -------------------------------- *)

\* longest collection_id given to es_id on its own
MaxLen == 5
\* longest list of items given to one upsert_collection_items call
MaxItems == 2
\* the clock runs from 0 to MaxNow days
MaxNow == 1
\* largest retention window, in days
MaxDays == 1

(* ------------------------------ values -------------------------------- *)

Alphabet == {"A", "B", "C", "a", ":", "-"}

RECURSIVE StringsOfLen(_)
StringsOfLen(n) ==
    IF n = 0 THEN {<<>>}
    ELSE {Append(s, ch) : s \in StringsOfLen(n - 1), ch \in Alphabet}

Strings == UNION {StringsOfLen(n) : n \in 0..MaxLen}

\* the collection_ids the callers use: "A:B" and "a-b" normalize to one index
CollectionIds == {<<"A", ":", "B">>, <<"a", "-", "b">>, <<"C">>}

NoCid == <<>>

ItemIds == {"i1", "i2"}

NoId == "none"

\* the timestamps items carry, in days: as now and days vary, each lies
\* before, at and after the threshold of some sweep
Times == {0, 1}

\* GeoJSON features as the callers pass them: properties.id not yet set
Items ==
    [id : ItemIds,
     properties : [id : {NoId}, resultTime : Times, pubTime : Times]]

RECURSIVE ListsOfLen(_)
ListsOfLen(n) ==
    IF n = 0 THEN {<<>>}
    ELSE {Append(l, it) : l \in ListsOfLen(n - 1), it \in Items}

ItemLists == UNION {ListsOfLen(n) : n \in 0..MaxItems}

\* lists of items published when observed (pubTime = resultTime)
SameTimeLists ==
    {l \in ItemLists :
        \A i \in 1..Len(l) : l[i].properties.pubTime = l[i].properties.resultTime}

\* lists of at most one item, of any two timestamps
ShortLists == ListsOfLen(0) \cup ListsOfLen(1)

Put(f, k, v) == [x \in (DOMAIN f) \cup {k} |-> IF x = k THEN v ELSE f[x]]

Remove(f, k) == [x \in (DOMAIN f) \ {k} |-> f[x]]

EmptyMap == [x \in {} |-> {}]

(* ------------------------------ es_id --------------------------------- *)

LowerChar(ch) ==
    CASE ch = "A" -> "a"
      [] ch = "B" -> "b"
      [] ch = "C" -> "c"
      [] OTHER -> ch

StrLower(s) == [i \in 1..Len(s) |-> LowerChar(s[i])]

StrReplace(s, old, new) == [i \in 1..Len(s) |-> IF s[i] = old THEN new ELSE s[i]]

\* es_id without lower()
es_id_replace_only(collection_id) == StrReplace(collection_id, ":", "-")

\* es_id without replace(':', '-')
es_id_lower_only(collection_id) == StrLower(collection_id)

es_id(collection_id) == StrReplace(StrLower(collection_id), ":", "-")

(* ------------------------- the engine's requests ---------------------- *)
(* indices maps the name of each index that exists to its set of documents, *)
(* each document a record [_id, _source].                                   *)

IndicesExists(idx, name) == name \in DOMAIN idx

\* an indices.create that accepts an index that exists already
IndicesCreate_lenient(idx, name) ==
    IF name \in DOMAIN idx
    THEN [error |-> FALSE, indices |-> idx]
    ELSE [error |-> FALSE, indices |-> Put(idx, name, {})]

\* indices.create: fails when the index exists already
IndicesCreate(idx, name) ==
    IF name \in DOMAIN idx
    THEN [error |-> TRUE, indices |-> idx]
    ELSE [error |-> FALSE, indices |-> Put(idx, name, {})]

IndicesDelete(idx, name) ==
    IF name \in DOMAIN idx
    THEN [error |-> FALSE, indices |-> Remove(idx, name)]
    ELSE [error |-> TRUE, indices |-> idx]

\* one "index" operation of a bulk request: the document replaces the one
\* stored under the same _id; a missing index is created by the engine
IndexDoc(idx, act) ==
    LET old == IF act._index \in DOMAIN idx THEN idx[act._index] ELSE {}
        kept == {d \in old : d._id # act._id}
    IN Put(idx, act._index,
           kept \cup {[_id |-> act._id, _source |-> act._source]})

RECURSIVE Bulk(_, _)
Bulk(idx, actions) ==
    IF actions = <<>> THEN idx
    ELSE Bulk(IndexDoc(idx, Head(actions)), Tail(actions))

\* conn.delete: fails when the index or the document is missing
Delete(idx, index, id) ==
    IF index \in DOMAIN idx /\ \E d \in idx[index] : d._id = id
    THEN [error |-> FALSE,
          indices |-> [idx EXCEPT ![index] = {d \in @ : d._id # id}]]
    ELSE [error |-> TRUE, indices |-> idx]

\* the query with 'lt' in place of 'lte'
QueryByDate_strict(d, before) ==
    \/ d._source.properties.resultTime < before
    \/ d._source.properties.pubTime < before

\* the bool/should query of the sweep: either range clause matches
QueryByDate(d, before) ==
    \/ d._source.properties.resultTime <= before
    \/ d._source.properties.pubTime <= before

DeleteByQuery(idx, index, before) ==
    [idx EXCEPT ![index] = {d \in @ : ~QueryByDate(d, before)}]

(* ------------------------- ElasticBackend ----------------------------- *)
(* Each method is an operator from the engine's state and the arguments to  *)
(* the engine's state afterwards and the outcome of the call.               *)

RTrue == "True"
RFalse == "False"
RNone == "None"
ExistsError == "RuntimeError: index exists"
NotFoundError == "RuntimeError: index does not exist"
DeletionError == "RuntimeError: Item deletion failed"
EngineError == "engine exception"

Bool(b) == IF b THEN RTrue ELSE RFalse

has_collection(idx, collection_id) ==
    LET es_index == es_id(collection_id)
    IN IndicesExists(idx, es_index)

\* add_collection without its pre-check
add_collection_unguarded(idx, collection_id) ==
    LET r == IndicesCreate(idx, es_id(collection_id))
    IN IF r.error
       THEN [indices |-> idx, result |-> EngineError]
       ELSE [indices |-> r.indices,
             result |-> Bool(IndicesExists(r.indices, es_id(collection_id)))]

add_collection(idx, collection_id) ==
    LET es_index == es_id(collection_id)
    IN IF has_collection(idx, collection_id)
       THEN [indices |-> idx, result |-> ExistsError]
       ELSE LET r == IndicesCreate(idx, es_index)
            IN IF r.error
               THEN [indices |-> idx, result |-> EngineError]
               ELSE [indices |-> r.indices,
                     result |-> Bool(has_collection(r.indices, collection_id))]

\* delete_collection without its pre-check
delete_collection_unguarded(idx, collection_id) ==
    LET es_index == es_id(collection_id)
        after == IF IndicesExists(idx, es_index)
                 THEN IndicesDelete(idx, es_index).indices
                 ELSE idx
    IN [indices |-> after, result |-> Bool(~IndicesExists(after, es_index))]

delete_collection(idx, collection_id) ==
    LET es_index == es_id(collection_id)
    IN IF ~has_collection(idx, collection_id)
       THEN [indices |-> idx, result |-> NotFoundError]
       ELSE LET after == IF IndicesExists(idx, es_index)
                         THEN IndicesDelete(idx, es_index).indices
                         ELSE idx
            IN [indices |-> after,
                result |-> Bool(~has_collection(after, collection_id))]

\* feature['properties']['id'] = feature['id']
Enrich(feature) == [feature EXCEPT !.properties.id = feature.id]

\* gendata without the assignment to properties.id
gendata_plain(es_index, features) ==
    [i \in 1..Len(features) |->
        [_index |-> es_index, _id |-> features[i].id, _source |-> features[i]]]

gendata(es_index, features) ==
    [i \in 1..Len(features) |->
        [_index |-> es_index,
         _id |-> features[i].id,
         _source |-> Enrich(features[i])]]

\* upsert_collection_items that fails on a missing collection
upsert_collection_items_strict(idx, collection_id, items) ==
    IF ~IndicesExists(idx, es_id(collection_id))
    THEN [indices |-> idx, result |-> NotFoundError]
    ELSE [indices |-> Bulk(idx, gendata(es_id(collection_id), items)),
          result |-> RNone]

upsert_collection_items(idx, collection_id, items) ==
    LET es_index == es_id(collection_id)
        ready == IF ~has_collection(idx, collection_id)
                 THEN add_collection(idx, es_index)
                 ELSE [indices |-> idx, result |-> RTrue]
    IN IF ready.result \notin {RTrue, RFalse}
       THEN [indices |-> ready.indices, result |-> ready.result]
       ELSE [indices |-> Bulk(ready.indices, gendata(es_index, items)),
             result |-> RNone]

delete_collection_item(idx, collection_id, item_id) ==
    LET r == Delete(idx, collection_id, item_id)
    IN IF r.error
       THEN [indices |-> idx, result |-> DeletionError]
       ELSE [indices |-> r.indices, result |-> RTrue]

\* pygeobox.util.datetime_days_ago: the time `days` days before now
datetime_days_ago(t, days) == t - days

\* the loop over the indices: the request for the failAt-th index (if any)
\* raises, which ends the loop there
RECURSIVE Sweep(_, _, _, _, _)
Sweep(idx, order, k, failAt, before) ==
    IF k > Len(order) THEN [indices |-> idx, result |-> RNone]
    ELSE IF k = failAt THEN [indices |-> idx, result |-> EngineError]
    ELSE Sweep(DeleteByQuery(idx, order[k], before), order, k + 1, failAt, before)

delete_collections_by_retention(idx, t, days, order, failAt) ==
    LET before == datetime_days_ago(t, days)
    IN Sweep(idx, order, 1, failAt, before)

RECURSIVE Perms(_)
Perms(S) ==
    IF S = {} THEN {<<>>}
    ELSE UNION {{<<x>> \o p : p \in Perms(S \ {x})} : x \in S}

(* ------------------------------ actions -------------------------------- *)
(* One caller at a time: each action is one whole call. last records the    *)
(* call just made and its outcome.                                          *)

Call(op, cid, item, result) ==
    [op |-> op, cid |-> cid, item |-> item, result |-> result,
     items |-> <<>>, days |-> 0, failed |-> NoCid, note |-> ""]

Callers == {1, 2}

IndexNames == {es_id(c) : c \in CollectionIds}

RaceIdle ==
    /\ pc = [k \in Callers |-> "idle"]
    /\ req = [k \in Callers |-> NoCid]
    /\ res = [k \in Callers |-> RNone]
    /\ created = [k \in Callers |-> FALSE]
    /\ creations = [n \in IndexNames |-> 0]

EsIdIdle == arg = <<>> /\ out = <<>> /\ out2 = <<>>

\* what os.environ.get returns for a setting that is not set
None == "None"

\* pygeobox.env not imported: no setting read
EnvIdle ==
    /\ environ = [n \in {} |-> None]
    /\ outcome = "not loaded"
    /\ missing_environment_variables = <<>>

Init ==
    /\ indices = EmptyMap
    /\ now = 0
    /\ last = Call("init", NoCid, NoId, RNone)
    /\ RaceIdle
    /\ EsIdIdle
    /\ EnvIdle

raceVars == <<pc, req, res, created, creations>>

esIdVars == <<arg, out, out2>>

envVars == <<environ, outcome, missing_environment_variables>>

HasCollection(c) ==
    /\ last' = Call("has_collection", c, NoId, Bool(has_collection(indices, c)))
    /\ UNCHANGED <<indices, now, raceVars, esIdVars, envVars>>

AddCollection(c) ==
    LET r == add_collection(indices, c)
    IN /\ indices' = r.indices
       /\ last' = Call("add_collection", c, NoId, r.result)
       /\ UNCHANGED <<now, raceVars, esIdVars, envVars>>

DeleteCollection(c) ==
    LET r == delete_collection(indices, c)
    IN /\ indices' = r.indices
       /\ last' = Call("delete_collection", c, NoId, r.result)
       /\ UNCHANGED <<now, raceVars, esIdVars, envVars>>

UpsertCollectionItems(c, items) ==
    LET r == upsert_collection_items(indices, c, items)
        wasThere == es_id(c) \in DOMAIN indices
        overwrote == /\ wasThere
                     /\ \E i \in 1..Len(items) :
                            \E d \in indices[es_id(c)] : d._id = items[i].id
    IN /\ indices' = r.indices
       /\ last' = [Call("upsert_collection_items", c, NoId, r.result)
                     EXCEPT !.items = items,
                            !.note = IF ~wasThere THEN "created"
                                     ELSE IF overwrote THEN "replaced"
                                     ELSE "written"]
       /\ UNCHANGED <<now, raceVars, esIdVars, envVars>>

DeleteCollectionItem(c, i) ==
    LET r == delete_collection_item(indices, c, i)
    IN /\ indices' = r.indices
       /\ last' = Call("delete_collection_item", c, i, r.result)
       /\ UNCHANGED <<now, raceVars, esIdVars, envVars>>

\* order: the order in which indices.get('*') lists the indices;
\* failAt: the position of the delete-by-query request that raises, 0 for none
DeleteCollectionsByRetention(days, order, failAt) ==
    LET r == delete_collections_by_retention(indices, now, days, order, failAt)
        before == datetime_days_ago(now, days)
        boundary == \E n \in DOMAIN indices : \E d \in indices[n] :
                        \/ d._source.properties.resultTime = before
                        \/ d._source.properties.pubTime = before
    IN /\ indices' = r.indices
       /\ last' = [Call("delete_collections_by_retention", NoCid, NoId, r.result)
                     EXCEPT !.days = days,
                            !.note = IF boundary THEN "boundary" ELSE "",
                            !.failed = IF failAt = 0 THEN NoCid ELSE order[failAt]]
       /\ UNCHANGED <<now, raceVars, esIdVars, envVars>>

\* a day passes
Tick ==
    /\ now < MaxNow
    /\ now' = now + 1
    /\ last' = Call("tick", NoCid, NoId, RNone)
    /\ UNCHANGED <<indices, raceVars, esIdVars, envVars>>

Sweeps ==
    \E days \in 0..MaxDays, order \in Perms(DOMAIN indices) :
        \E failAt \in 0..Len(order) :
            DeleteCollectionsByRetention(days, order, failAt)

(* The lifecycle of collections and items: lists of up to MaxItems items,   *)
(* each published when observed. The sweep has its own specification below. *)

Next ==
    \/ \E c \in CollectionIds : HasCollection(c)
    \/ \E c \in CollectionIds : AddCollection(c)
    \/ \E c \in CollectionIds : DeleteCollection(c)
    \/ \E c \in CollectionIds, items \in SameTimeLists : UpsertCollectionItems(c, items)
    \/ \E c \in CollectionIds, i \in ItemIds : DeleteCollectionItem(c, i)

Spec == Init /\ [][Next]_vars

(* The retention sweep over items of any two timestamps, written one at a time *)

NextRetention ==
    \/ \E c \in CollectionIds, items \in ShortLists : UpsertCollectionItems(c, items)
    \/ \E c \in CollectionIds : DeleteCollection(c)
    \/ Sweeps
    \/ Tick

SpecRetention == Init /\ [][NextRetention]_vars

(* --------------------- two callers of add_collection -------------------- *)
(* The pre-check, the creation request and the closing existence check of   *)
(* each caller are separate requests to the engine, which interleave.       *)

Begin(k, c) ==
    /\ pc[k] = "idle"
    /\ pc' = [pc EXCEPT ![k] = "check"]
    /\ req' = [req EXCEPT ![k] = c]
    /\ UNCHANGED <<indices, now, last, res, created, creations, esIdVars, envVars>>

PreCheck(k) ==
    /\ pc[k] = "check"
    /\ IF has_collection(indices, req[k])
       THEN /\ pc' = [pc EXCEPT ![k] = "done"]
            /\ res' = [res EXCEPT ![k] = ExistsError]
       ELSE /\ pc' = [pc EXCEPT ![k] = "create"]
            /\ UNCHANGED res
    /\ UNCHANGED <<indices, now, last, req, created, creations, esIdVars, envVars>>

Create(k) ==
    /\ pc[k] = "create"
    /\ LET r == IndicesCreate(indices, es_id(req[k]))
       IN IF r.error
          THEN /\ pc' = [pc EXCEPT ![k] = "done"]
               /\ res' = [res EXCEPT ![k] = EngineError]
               /\ UNCHANGED <<indices, created, creations>>
          ELSE /\ pc' = [pc EXCEPT ![k] = "confirm"]
               /\ indices' = r.indices
               /\ created' = [created EXCEPT ![k] = TRUE]
               /\ creations' = [creations EXCEPT
                                  ![es_id(req[k])] = IF @ = 0 THEN 1 ELSE 2]
               /\ UNCHANGED res
    /\ UNCHANGED <<now, last, req, esIdVars, envVars>>

Confirm(k) ==
    /\ pc[k] = "confirm"
    /\ pc' = [pc EXCEPT ![k] = "done"]
    /\ res' = [res EXCEPT ![k] = Bool(has_collection(indices, req[k]))]
    /\ UNCHANGED <<indices, now, last, req, created, creations, esIdVars, envVars>>

\* the call is over; the caller may call again
Return(k) ==
    /\ pc[k] = "done"
    /\ pc' = [pc EXCEPT ![k] = "idle"]
    /\ req' = [req EXCEPT ![k] = NoCid]
    /\ res' = [res EXCEPT ![k] = RNone]
    /\ created' = [created EXCEPT ![k] = FALSE]
    /\ UNCHANGED <<indices, now, last, creations, esIdVars, envVars>>

NextRace ==
    \/ \E k \in Callers, c \in CollectionIds : Begin(k, c)
    \/ \E k \in Callers : PreCheck(k)
    \/ \E k \in Callers : Create(k)
    \/ \E k \in Callers : Confirm(k)
    \/ \E k \in Callers : Return(k)

SpecRace == Init /\ [][NextRace]_vars

(* ------------------------------ es_id alone ---------------------------- *)

InitEsId ==
    /\ indices = EmptyMap
    /\ now = 0
    /\ last = Call("init", NoCid, NoId, RNone)
    /\ RaceIdle
    /\ arg \in Strings
    /\ out = <<>>
    /\ out2 = <<>>
    /\ EnvIdle

Normalize ==
    /\ last.op = "init"
    /\ out' = es_id(arg)
    /\ out2' = es_id(es_id(arg))
    /\ last' = Call("es_id", arg, NoId, RNone)
    /\ UNCHANGED <<indices, now, raceVars, arg, envVars>>

NextEsId == Normalize

SpecEsId == InitEsId /\ [][NextEsId]_vars

(* --------------------------- pygeobox.env ------------------------------ *)
(* Importing the module reads the settings from os.environ into module      *)
(* globals and validates the required ones. environ maps each setting to    *)
(* its value, None standing for a setting that is not set.                  *)

\* the values a string setting takes: not set, an ordinary value, or a value
\* that happens to spell the name of a module global
SettingValues == {None, "value", "DOCKER_API_URL", "API_URL"}

Environments ==
    [PYGEOBOX_DATADIR : {None, "/data"},
     PYGEOBOX_API_TYPE : SettingValues,
     PYGEOBOX_API_URL : {None, "value"},
     PYGEOBOX_API_BACKEND_URL : {None, "value"},
     PYGEOBOX_DOCKER_API_URL : SettingValues,
     PYGEOBOX_URL : SettingValues,
     PYGEOBOX_STORAGE_DATA_RETENTION_DAYS : {None, "30", "value"}]

\* Path(value): a path object, equal to no string
Path(v) == IF v = "/data" THEN "Path('/data')" ELSE "Path('value')"

\* the module globals bound when the validation runs, in the order of their
\* assignment, each a pair <<name, value>>
Globals(e) ==
    << <<"DATADIR", Path(e.PYGEOBOX_DATADIR)>>,
       <<"API_TYPE", e.PYGEOBOX_API_TYPE>>,
       <<"API_URL", e.PYGEOBOX_API_URL>>,
       <<"API_BACKEND_URL", e.PYGEOBOX_API_BACKEND_URL>>,
       <<"DOCKER_API_URL", e.PYGEOBOX_DOCKER_API_URL>>,
       <<"URL", e.PYGEOBOX_URL>>,
       <<"STORAGE_DATA_RETENTION_DAYS",
         IF e.PYGEOBOX_STORAGE_DATA_RETENTION_DAYS = None
         THEN None ELSE "int(30)">> >>

\* the list of the values of the required settings
required_environment_variables(e) ==
    <<Path(e.PYGEOBOX_DATADIR), e.PYGEOBOX_DOCKER_API_URL,
      e.PYGEOBOX_API_TYPE, e.PYGEOBOX_URL>>

Range(seq) == {seq[i] : i \in 1..Len(seq)}

IsRequired(pair, required) == pair[2] = None /\ pair[1] \in Range(required)

\* [k for k, v in locals().items()
\*    if v is rev and k in required_environment_variables], for rev None:
\* the names of the globals that are None and that equal a value of the list
env_var(globals, required) ==
    LET hit(pair) == IsRequired(pair, required)
        hits == SelectSeq(globals, hit)
    IN [i \in 1..Len(hits) |-> hits[i][1]]

\* for rev in required_environment_variables: ...
RECURSIVE Validate(_, _, _, _)
Validate(globals, required, i, missing) ==
    IF i > Len(required) THEN missing
    ELSE IF required[i] = None /\ env_var(globals, required) # <<>>
    THEN Validate(globals, required, i + 1,
                  Append(missing, Head(env_var(globals, required))))
    ELSE Validate(globals, required, i + 1, missing)

\* the import of pygeobox.env, to the exception that ends it or "loaded"
load_env(e) ==
    IF e.PYGEOBOX_DATADIR = None
    THEN [outcome |-> "EnvironmentError: Configuration filepaths do not exist!",
          missing |-> <<>>]
    ELSE IF e.PYGEOBOX_API_BACKEND_URL = None
    THEN [outcome |-> "AttributeError", missing |-> <<>>]
    ELSE IF e.PYGEOBOX_STORAGE_DATA_RETENTION_DAYS \notin {None, "30"}
    THEN [outcome |-> "ValueError", missing |-> <<>>]
    ELSE LET missing == Validate(Globals(e), required_environment_variables(e),
                                 1, <<>>)
         IN IF missing # <<>>
            THEN [outcome |-> "EnvironmentError: Environment variables not set!",
                  missing |-> missing]
            ELSE [outcome |-> "loaded", missing |-> missing]

InitEnv ==
    /\ indices = EmptyMap
    /\ now = 0
    /\ last = Call("init", NoCid, NoId, RNone)
    /\ RaceIdle
    /\ EsIdIdle
    /\ environ \in Environments
    /\ outcome = "not loaded"
    /\ missing_environment_variables = <<>>

Import ==
    /\ outcome = "not loaded"
    /\ outcome' = load_env(environ).outcome
    /\ missing_environment_variables' = load_env(environ).missing
    /\ UNCHANGED <<indices, now, last, raceVars, esIdVars, environ>>

NextEnv == Import

SpecEnv == InitEnv /\ [][NextEnv]_vars

(* ------------------------------- claims -------------------------------- *)

\* C1: add_collection(c) succeeds exactly when the index es_id(c) is absent
\* before the call: then the index exists afterwards, has_collection(c) is
\* true, the call returns true and no other index changes; when the index
\* exists already the call fails with the "index exists" error and every
\* index and every document is left as it was.
C1_AddCollection ==
    [][\A c \in CollectionIds :
        (last'.op = "add_collection" /\ last'.cid = c) =>
            IF es_id(c) \notin DOMAIN indices
            THEN /\ es_id(c) \in DOMAIN indices'
                 /\ has_collection(indices', c)
                 /\ last'.result = RTrue
                 /\ \A n \in DOMAIN indices :
                        n \in DOMAIN indices' /\ indices'[n] = indices[n]
            ELSE /\ last'.result = ExistsError
                 /\ indices' = indices]_vars

\* add_collection has failed on an index that holds documents
C1_Witness ==
    /\ last.op = "add_collection"
    /\ last.result = ExistsError
    /\ es_id(last.cid) \in DOMAIN indices
    /\ indices[es_id(last.cid)] # {}

\* C2: delete_collection(c) fails with the "index does not exist" error,
\* changing no index and no document, when the index es_id(c) is absent
\* before the call; when it is present the call removes the index with its
\* documents, has_collection(c) is false afterwards, the call returns true
\* and every other index is left as it was.
C2_DeleteCollection ==
    [][\A c \in CollectionIds :
        (last'.op = "delete_collection" /\ last'.cid = c) =>
            IF es_id(c) \notin DOMAIN indices
            THEN /\ last'.result = NotFoundError
                 /\ indices' = indices
            ELSE /\ es_id(c) \notin DOMAIN indices'
                 /\ ~has_collection(indices', c)
                 /\ last'.result = RTrue
                 /\ \A n \in (DOMAIN indices) \ {es_id(c)} :
                        n \in DOMAIN indices' /\ indices'[n] = indices[n]]_vars

\* delete_collection has removed an index while another index keeps its documents
C2_Witness ==
    /\ last.op = "delete_collection"
    /\ last.result = RTrue
    /\ es_id(last.cid) \notin DOMAIN indices
    /\ \E n \in DOMAIN indices : indices[n] # {}

\* C3, as stated: upsert_collection_items(c, items) on a collection that does
\* not exist creates it, and afterwards has_collection(c) is true and every
\* item of the list is stored in the index es_id(c) under its id.
C3_EveryItemStored ==
    [][LET c == last'.cid
           items == last'.items
       IN
        (/\ last'.op = "upsert_collection_items"
         /\ es_id(c) \notin DOMAIN indices) =>
            /\ has_collection(indices', c)
            /\ \A i \in 1..Len(items) :
                   \E d \in indices'[es_id(c)] :
                       /\ d._id = items[i].id
                       /\ d._source.id = items[i].id
                       /\ d._source.properties.resultTime
                              = items[i].properties.resultTime
                       /\ d._source.properties.pubTime
                              = items[i].properties.pubTime]_vars

\* C3, amended: upsert_collection_items(c, items) on a collection that does
\* not exist creates it instead of failing: the call returns, afterwards
\* has_collection(c) is true, and for every id of the list the index es_id(c)
\* stores under that id the last item of the list that carries the id.
C3_LastItemStored ==
    [][LET c == last'.cid
           items == last'.items
       IN
        (/\ last'.op = "upsert_collection_items"
         /\ es_id(c) \notin DOMAIN indices) =>
            /\ last'.result = RNone
            /\ has_collection(indices', c)
            /\ \A i \in 1..Len(items) :
                   (\A j \in (i + 1)..Len(items) : items[j].id # items[i].id) =>
                       \E d \in indices'[es_id(c)] :
                           /\ d._id = items[i].id
                           /\ d._source.id = items[i].id
                           /\ d._source.properties.resultTime
                                  = items[i].properties.resultTime
                           /\ d._source.properties.pubTime
                                  = items[i].properties.pubTime]_vars

\* an upsert under "A:B" has created the index "a-b" and stored two items in it
C3_Witness ==
    /\ last.op = "upsert_collection_items"
    /\ last.note = "created"
    /\ last.cid = <<"A", ":", "B">>
    /\ <<"a", "-", "b">> \in DOMAIN indices
    /\ Cardinality(indices[<<"a", "-", "b">>]) = 2

\* C4: for every collection_id c and every item id i stored in the index
\* es_id(c), delete_collection_item(c, i) returns true and afterwards no
\* document with id i is stored in the index es_id(c).
C4_DeleteStoredItem ==
    [][\A c \in CollectionIds, i \in ItemIds :
        (/\ last'.op = "delete_collection_item"
         /\ last'.cid = c
         /\ last'.item = i
         /\ es_id(c) \in DOMAIN indices
         /\ \E d \in indices[es_id(c)] : d._id = i) =>
            /\ last'.result = RTrue
            /\ es_id(c) \in DOMAIN indices'
            /\ ~\E d \in indices'[es_id(c)] : d._id = i]_vars

\* C6: every document stored in an index has properties.id equal to its
\* top-level id and to the key it is stored under, and no index holds two
\* documents under one key; an upsert leaves, under each id of its list, the
\* data of the last item of the list with that id, whatever was stored there.
C6_DocumentIdentity ==
    /\ [](\A n \in DOMAIN indices :
            /\ \A d \in indices[n] :
                   d._source.properties.id = d._source.id /\ d._source.id = d._id
            /\ \A d1, d2 \in indices[n] : d1._id = d2._id => d1 = d2)
    /\ [][LET c == last'.cid
               items == last'.items
           IN
            last'.op = "upsert_collection_items" =>
                \A i \in 1..Len(items) :
                    (\A j \in (i + 1)..Len(items) : items[j].id # items[i].id) =>
                        \A d \in indices'[es_id(c)] :
                            d._id = items[i].id =>
                                /\ d._source.properties.resultTime
                                       = items[i].properties.resultTime
                                /\ d._source.properties.pubTime
                                       = items[i].properties.pubTime]_vars

\* an upsert has replaced a stored document
C6_Witness ==
    /\ last.op = "upsert_collection_items"
    /\ last.note = "replaced"
    /\ indices[es_id(last.cid)] # {}

\* C5: a sweep delete_collections_by_retention(D) whose requests all succeed
\* removes, from every index that exists when it starts, exactly the items
\* whose resultTime or pubTime is at or before the threshold now - D: an item
\* with both timestamps after the threshold stays, an item with a timestamp
\* at the threshold goes, and no index appears or disappears.
C5_RetentionPurge ==
    [][(/\ last'.op = "delete_collections_by_retention"
        /\ last'.result = RNone) =>
            LET threshold == now - last'.days
            IN /\ DOMAIN indices' = DOMAIN indices
               /\ \A n \in DOMAIN indices :
                      /\ indices'[n] \subseteq indices[n]
                      /\ \A d \in indices[n] :
                             d \in indices'[n] <=>
                                 /\ d._source.properties.resultTime > threshold
                                 /\ d._source.properties.pubTime > threshold]_vars

\* a sweep over two indices has met an item exactly at the threshold and has
\* left an item stored
C5_Witness ==
    /\ last.op = "delete_collections_by_retention"
    /\ last.result = RNone
    /\ last.note = "boundary"
    /\ Cardinality(DOMAIN indices) = 2
    /\ \E n \in DOMAIN indices : indices[n] # {}

\* C9: when the delete-by-query request fails for one index of the sweep,
\* every other index of the sweep is purged of its expired items all the
\* same, those before the failing one and those after it.
C9_SweepContinues ==
    [][(/\ last'.op = "delete_collections_by_retention"
        /\ last'.failed # NoCid) =>
            LET threshold == now - last'.days
            IN \A n \in (DOMAIN indices) \ {last'.failed} :
                   indices'[n] =
                       {d \in indices[n] :
                           /\ d._source.properties.resultTime > threshold
                           /\ d._source.properties.pubTime > threshold}]_vars

\* C7: es_id keeps the length of its argument, turns ':' into '-' and each
\* upper-case letter into its lower-case letter, and leaves every other
\* character alone; the result holds no ':' and no upper-case letter;
\* es_id('A:B:C') = 'a-b-c'; and es_id(es_id(x)) = es_id(x).
C7_EsId ==
    last.op = "es_id" =>
        /\ Len(out) = Len(arg)
        /\ \A i \in 1..Len(arg) :
               /\ out[i] \notin {"A", "B", "C", ":"}
               /\ arg[i] = ":" => out[i] = "-"
               /\ arg[i] = "A" => out[i] = "a"
               /\ arg[i] = "B" => out[i] = "b"
               /\ arg[i] = "C" => out[i] = "c"
               /\ arg[i] \in {"a", "-"} => out[i] = arg[i]
        /\ arg = <<"A", ":", "B", ":", "C">> => out = <<"a", "-", "b", "-", "c">>
        /\ out2 = out

\* es_id has been applied to 'A:B:C'
C7_Witness ==
    /\ last.op = "es_id"
    /\ arg = <<"A", ":", "B", ":", "C">>
    /\ out = <<"a", "-", "b", "-", "c">>
    /\ out2 = out

\* C8: with two callers of add_collection interleaving, each index is created
\* at most once, no two callers have both created one index, of two finished
\* callers of one index at most one has returned true, and a finished caller
\* has returned true exactly when its own creation request succeeded, and has
\* failed otherwise (in the pre-check, or in the engine on a duplicate
\* creation).
C8_CreatedOnce ==
    /\ \A n \in IndexNames : creations[n] <= 1
    /\ \A k \in Callers :
           pc[k] = "done" =>
               /\ res[k] \in {RTrue, ExistsError, EngineError}
               /\ res[k] = RTrue <=> created[k]
    /\ \A k1, k2 \in Callers :
           (/\ k1 # k2
            /\ req[k1] # NoCid
            /\ req[k2] # NoCid
            /\ es_id(req[k1]) = es_id(req[k2])) =>
               /\ ~(created[k1] /\ created[k2])
               /\ (pc[k1] = "done" /\ pc[k2] = "done") =>
                      ~(res[k1] = RTrue /\ res[k2] = RTrue)

\* both callers passed the pre-check of one index: one created it and
\* returned true, the engine refused the other
C8_Witness ==
    /\ pc[1] = "done"
    /\ pc[2] = "done"
    /\ es_id(req[1]) = es_id(req[2])
    /\ res[1] = RTrue
    /\ created[1]
    /\ res[2] = EngineError

C11_RequiredSettings ==
    outcome # "not loaded" =>
        LET unset == {n \in {"DATADIR", "DOCKER_API_URL", "API_TYPE", "URL"} :
                         \/ n = "DATADIR" /\ environ.PYGEOBOX_DATADIR = None
                         \/ n = "DOCKER_API_URL"
                                /\ environ.PYGEOBOX_DOCKER_API_URL = None
                         \/ n = "API_TYPE" /\ environ.PYGEOBOX_API_TYPE = None
                         \/ n = "URL" /\ environ.PYGEOBOX_URL = None}
        IN /\ unset # {} =>
                  /\ outcome \in
                         {"EnvironmentError: Configuration filepaths do not exist!",
                          "EnvironmentError: Environment variables not set!"}
                  /\ unset \subseteq Range(missing_environment_variables)
           /\ outcome = "loaded" => unset = {}

====
